---- MODULE Spec2Model ----
(***************************************************************************)
(* Model of the admission-control component of shraddha761/educas:         *)
(*   src/utils/rateLimiter.ts  class RateLimiter (constructor, checkLimit) *)
(*   src/api/chat.ts           the module-level limiter and the handler    *)
(* Times are milliseconds, with the window lengths of the source.          *)
(***************************************************************************)
EXTENDS Integers, Sequences, FiniteSets, TLC

VARIABLES
    env,        \* process.env: the three RATE_LIMIT_* variables
    limiter,    \* "none" before construction, "direct" for new RateLimiter(arg),
                \* "chat" for the module-level limiter of chat.ts
    given,      \* the argument the constructor was called with
    config,     \* RateLimiter.config
    requests,   \* RateLimiter.requests: clientId -> timestamps
    now,        \* Date.now()
    calls,      \* record of the checkLimit calls made so far
    pc,         \* handler invocation -> where it is suspended
    isAllowed,  \* handler invocation -> its isAllowed
    status,     \* handler invocation -> status of its Response (0: none yet)
    fetches     \* handler invocation -> upstream fetch calls it made

vars == <<env, limiter, given, config, requests, now, calls, pc, isAllowed, status, fetches>>

(***************************************************************************)
(* Bounds of the model.                                                    *)
(***************************************************************************)
\* direct checkLimit calls made in one behaviour of Spec / SpecConfig
MaxCalls == 4
\* handler invocations in flight in one behaviour of SpecHandler
NumProcs == 2

(***************************************************************************)
(* JavaScript numbers and undefined, as far as the code distinguishes      *)
(* them: finite integers, NaN, +/-Infinity (v is the sign), undefined.     *)
(***************************************************************************)
Num(n) == [t |-> "num", v |-> n]
NaN == [t |-> "nan", v |-> 0]
Infinity == [t |-> "inf", v |-> 1]
NegInfinity == [t |-> "inf", v |-> -1]
Undefined == [t |-> "undefined", v |-> 0]

\* count >= cap, count a finite integer (an array length)
GreaterOrEqual(count, cap) ==
    CASE cap.t = "num" -> count >= cap.v
      [] cap.t = "inf" -> cap.v < 0
      [] OTHER -> FALSE

\* count > cap
GreaterThan(count, cap) ==
    CASE cap.t = "num" -> count > cap.v
      [] cap.t = "inf" -> cap.v < 0
      [] OTHER -> FALSE

\* a ?? b
Nullish(a, b) == IF a.t = "undefined" THEN b ELSE a

\* truthiness of a number or undefined
Truthy(a) == ~(a.t = "undefined" \/ a.t = "nan" \/ (a.t = "num" /\ a.v = 0))

\* a || b
OrElse(a, b) == IF Truthy(a) THEN a ELSE b

(***************************************************************************)
(* RateLimiter.constructor                                                 *)
(***************************************************************************)
DefaultPerMinute == 60
DefaultPerHour == 1000
DefaultPerDay == 5000

\* a Partial<RateLimitConfig>: an omitted field is Undefined
Partial(m, h, d) ==
    [requestsPerMinute |-> m, requestsPerHour |-> h, requestsPerDay |-> d]

\* new RateLimiter() : config itself undefined, config?.x is undefined
NoConfig == Partial(Undefined, Undefined, Undefined)

RateLimiterNew_or(cfg) ==
    [requestsPerMinute |-> OrElse(cfg.requestsPerMinute, Num(DefaultPerMinute)),
     requestsPerHour |-> OrElse(cfg.requestsPerHour, Num(DefaultPerHour)),
     requestsPerDay |-> OrElse(cfg.requestsPerDay, Num(DefaultPerDay))]

RateLimiterNew(cfg) ==
    [requestsPerMinute |-> Nullish(cfg.requestsPerMinute, Num(DefaultPerMinute)),
     requestsPerHour |-> Nullish(cfg.requestsPerHour, Num(DefaultPerHour)),
     requestsPerDay |-> Nullish(cfg.requestsPerDay, Num(DefaultPerDay))]

(***************************************************************************)
(* RateLimiter.checkLimit                                                  *)
(***************************************************************************)
minute == 60 * 1000
hour == 60 * minute
day == 24 * hour

\* this.requests.get(clientId) || []
getTimestamps(reqs, clientId) ==
    IF clientId \in DOMAIN reqs THEN reqs[clientId] ELSE <<>>

\* this.requests.set(clientId, timestamps)
setTimestamps(reqs, clientId, ts) ==
    [c \in DOMAIN reqs \cup {clientId} |-> IF c = clientId THEN ts ELSE reqs[c]]

\* timestamps.filter(ts => now - ts < day)
pruneDay_keepAll(timestamps, t) == timestamps

pruneDay_inclusive(timestamps, t) == SelectSeq(timestamps, LAMBDA ts : t - ts <= day)

pruneDay(timestamps, t) == SelectSeq(timestamps, LAMBDA ts : t - ts < day)

\* timestamps.filter(ts => now - ts < minute).length
lastMinuteOf(timestamps, t) == Len(SelectSeq(timestamps, LAMBDA ts : t - ts < minute))

\* timestamps.filter(ts => now - ts < hour).length
lastHourOf(timestamps, t) == Len(SelectSeq(timestamps, LAMBDA ts : t - ts < hour))

\* the three guards, in the order of the code
minuteExceeded_gt(lastMinute, cfg) == GreaterThan(lastMinute, cfg.requestsPerMinute)

minuteExceeded(lastMinute, cfg) == GreaterOrEqual(lastMinute, cfg.requestsPerMinute)

hourExceeded_gt(lastHour, cfg) == GreaterThan(lastHour, cfg.requestsPerHour)

hourExceeded(lastHour, cfg) == GreaterOrEqual(lastHour, cfg.requestsPerHour)

dayExceeded_gt(lastDay, cfg) == GreaterThan(lastDay, cfg.requestsPerDay)

dayExceeded(lastDay, cfg) == GreaterOrEqual(lastDay, cfg.requestsPerDay)

\* a return false: the map is left as it was
reject_recording(reqs, clientId, timestamps, t) ==
    setTimestamps(reqs, clientId, Append(timestamps, t))

reject(reqs, clientId, timestamps, t) == reqs

\* timestamps.push(now); this.requests.set(clientId, timestamps)
admit_sharedKey(reqs, clientId, timestamps, t) ==
    [c \in DOMAIN reqs \cup {clientId} |-> Append(timestamps, t)]

admit_notStored(reqs, clientId, timestamps, t) == reqs

admit_prepend(reqs, clientId, timestamps, t) ==
    setTimestamps(reqs, clientId, <<t>> \o timestamps)

admit_replace(reqs, clientId, timestamps, t) ==
    setTimestamps(reqs, clientId, <<t>>)

admit(reqs, clientId, timestamps, t) ==
    setTimestamps(reqs, clientId, Append(timestamps, t))

\* The whole call at instant t: the decision, the window that rejected
\* ("none" on admission), the three counts and the map afterwards.
checkLimit(reqs, cfg, clientId, t) ==
    LET timestamps == pruneDay(getTimestamps(reqs, clientId), t)
        lastMinute == lastMinuteOf(timestamps, t)
        lastHour == lastHourOf(timestamps, t)
        lastDay == Len(timestamps)
        window == CASE minuteExceeded(lastMinute, cfg) -> "minute"
                    [] hourExceeded(lastHour, cfg) -> "hour"
                    [] dayExceeded(lastDay, cfg) -> "day"
                    [] OTHER -> "none"
    IN  [ok |-> window = "none",
         window |-> window,
         lastMinute |-> lastMinute,
         lastHour |-> lastHour,
         lastDay |-> lastDay,
         requests |-> IF window = "none"
                      THEN admit(reqs, clientId, timestamps, t)
                      ELSE reject(reqs, clientId, timestamps, t)]

(***************************************************************************)
(* src/api/chat.ts, lines 4-8: the module-level limiter, its caps read     *)
(* from the process environment with Number(...) || default.               *)
(***************************************************************************)
ChatPerMinute == 15
ChatPerHour == 250
ChatPerDay == 500

\* process.env.X : a string (a sequence of characters) or not set
Unset == [set |-> FALSE, s |-> <<>>]
Str(chars) == [set |-> TRUE, s |-> chars]

Digits == {"0", "1", "2", "3", "4", "5", "6", "7", "8", "9"}
DigitVal(ch) ==
    CASE ch = "0" -> 0 [] ch = "1" -> 1 [] ch = "2" -> 2 [] ch = "3" -> 3
      [] ch = "4" -> 4 [] ch = "5" -> 5 [] ch = "6" -> 6 [] ch = "7" -> 7
      [] ch = "8" -> 8 [] ch = "9" -> 9

RECURSIVE TrimLeft(_)
TrimLeft(s) == IF s # <<>> /\ Head(s) = " " THEN TrimLeft(Tail(s)) ELSE s

RECURSIVE TrimRight(_)
TrimRight(s) ==
    IF s # <<>> /\ s[Len(s)] = " " THEN TrimRight(SubSeq(s, 1, Len(s) - 1)) ELSE s

RECURSIVE DecimalValue(_)
DecimalValue(s) ==
    IF s = <<>> THEN 0
    ELSE 10 * DecimalValue(SubSeq(s, 1, Len(s) - 1)) + DigitVal(s[Len(s)])

InfinityChars == <<"I", "n", "f", "i", "n", "i", "t", "y">>

\* Number(string): white space trimmed, the empty string is 0, an optional
\* sign before decimal digits or Infinity, anything else NaN.  (Fractions,
\* exponents and 0x/0o/0b literals are not among the strings drawn below.)
StringToNumber(str) ==
    LET trimmed == TrimRight(TrimLeft(str))
        signed == trimmed # <<>> /\ Head(trimmed) \in {"-", "+"}
        sign == IF signed /\ Head(trimmed) = "-" THEN -1 ELSE 1
        body == IF signed THEN Tail(trimmed) ELSE trimmed
    IN  CASE trimmed = <<>> -> Num(0)
          [] body = InfinityChars -> IF sign < 0 THEN NegInfinity ELSE Infinity
          [] body # <<>> /\ \A i \in 1..Len(body) : body[i] \in Digits ->
                Num(sign * DecimalValue(body))
          [] OTHER -> NaN

\* Number(process.env.X) : Number(undefined) is NaN
NumberOf(e) == IF e.set THEN StringToNumber(e.s) ELSE NaN

EnvNames == {"RATE_LIMIT_REQUESTS_PER_MINUTE", "RATE_LIMIT_REQUESTS_PER_HOUR",
             "RATE_LIMIT_REQUESTS_PER_DAY"}

capFromEnv_nullish(e, default) == Nullish(NumberOf(e), Num(default))

\* Number(process.env.X) || default
capFromEnv(e, default) == OrElse(NumberOf(e), Num(default))

\* the argument of new RateLimiter({...}) in chat.ts
ChatLimiterArg(e) ==
    Partial(capFromEnv(e["RATE_LIMIT_REQUESTS_PER_MINUTE"], ChatPerMinute),
            capFromEnv(e["RATE_LIMIT_REQUESTS_PER_HOUR"], ChatPerHour),
            capFromEnv(e["RATE_LIMIT_REQUESTS_PER_DAY"], ChatPerDay))

NoEnv == [n \in EnvNames |-> Unset]

(***************************************************************************)
(* Inputs drawn by the specifications.                                     *)
(***************************************************************************)
Clients == {"A", "B"}

\* Date.now() : instants that put two calls less than, exactly and more than
\* a minute, an hour and a day apart
Instants == {0, 1, minute, hour, day, day + 1, day + 2}

\* caps given to the constructor in Spec: positive, in every relative order
SmallCaps == {1, 2}
LimiterArgs ==
    {Partial(Num(m), Num(h), Num(d)) : m \in SmallCaps, h \in SmallCaps, d \in SmallCaps}
    \cup {Partial(Num(2), Num(10), Num(10))}

\* one recorded checkLimit call: who called (proc 0 is a direct caller),
\* for which client, when, what it returned and the counts it computed
CallRecord(p, clientId, t, r) ==
    [proc |-> p, client |-> clientId, at |-> t, ok |-> r.ok, window |-> r.window,
     lastMinute |-> r.lastMinute, lastHour |-> r.lastHour, lastDay |-> r.lastDay]

Procs == 1..NumProcs

(***************************************************************************)
(* Spec: one limiter, constructed with positive caps, called directly.     *)
(***************************************************************************)
IdleHandlers ==
    /\ pc = [p \in Procs |-> "idle"]
    /\ isAllowed = [p \in Procs |-> FALSE]
    /\ status = [p \in Procs |-> 0]
    /\ fetches = [p \in Procs |-> 0]

Init ==
    /\ env = NoEnv
    /\ limiter = "direct"
    /\ given \in LimiterArgs
    /\ config = RateLimiterNew(given)
    /\ requests = <<>>
    /\ now = 0
    /\ calls = <<>>
    /\ IdleHandlers

\* await limiter.checkLimit(c) by a direct caller
CheckLimit(c) ==
    /\ limiter # "none"
    /\ Len(calls) < MaxCalls
    /\ LET r == checkLimit(requests, config, c, now)
       IN  /\ requests' = r.requests
           /\ calls' = Append(calls, CallRecord(0, c, now, r))
    /\ UNCHANGED <<env, limiter, given, config, now, pc, isAllowed, status, fetches>>

\* the wall clock moves on
Tick ==
    /\ \E t \in Instants : t > now /\ now' = t
    /\ UNCHANGED <<env, limiter, given, config, requests, calls, pc, isAllowed, status, fetches>>

Next == (\E c \in Clients : CheckLimit(c)) \/ Tick

Spec == Init /\ [][Next]_vars

(***************************************************************************)
(* SpecConfig: the limiter is still to be constructed, either directly     *)
(* with any Partial<RateLimitConfig> or by loading chat.ts under any       *)
(* environment; then it is called.                                         *)
(***************************************************************************)
CapValues == {Undefined, NaN, Num(-1), Num(0), Num(1), Num(2)}
CtorArgs == {Partial(m, h, d) : m \in CapValues, h \in CapValues, d \in CapValues}

EnvValues ==
    {Unset, Str(<<>>), Str(<<"0">>), Str(<<"2">>), Str(<<"-", "1">>),
     Str(<<"a", "b", "c">>), Str(<<" ", "1", " ">>), Str(<<"2", "a">>),
     Str(InfinityChars)}
Envs == [EnvNames -> EnvValues]

InitConfig ==
    /\ env = NoEnv
    /\ limiter = "none"
    /\ given = NoConfig
    /\ config = NoConfig
    /\ requests = <<>>
    /\ now = 0
    /\ calls = <<>>
    /\ IdleHandlers

\* new RateLimiter(a)
Construct(a) ==
    /\ limiter = "none"
    /\ limiter' = "direct"
    /\ given' = a
    /\ config' = RateLimiterNew(a)
    /\ UNCHANGED <<env, requests, now, calls, pc, isAllowed, status, fetches>>

\* the process starts with environment e and loads chat.ts
LoadChat(e) ==
    /\ limiter = "none"
    /\ env' = e
    /\ limiter' = "chat"
    /\ given' = ChatLimiterArg(e)
    /\ config' = RateLimiterNew(ChatLimiterArg(e))
    /\ UNCHANGED <<requests, now, calls, pc, isAllowed, status, fetches>>

NextConfig ==
    \/ \E a \in CtorArgs : Construct(a)
    \/ \E e \in Envs : LoadChat(e)
    \/ \E c \in Clients : CheckLimit(c)

SpecConfig == InitConfig /\ [][NextConfig]_vars

(***************************************************************************)
(* SpecHandler: chat.ts is loaded; NumProcs invocations of handler run,    *)
(* each suspended at its awaits, so that their steps interleave.           *)
(***************************************************************************)
\* req.headers.get('x-forwarded-for'): null when absent
NoHeader == [set |-> FALSE, s |-> ""]
Header(str) == [set |-> TRUE, s |-> str]
Headers == {NoHeader, Header(""), Header("A")}

\* req.headers.get('x-forwarded-for') || 'anonymous'
clientIpOf(h) == IF h.set /\ h.s # "" THEN h.s ELSE "anonymous"

HandlerEnvs ==
    {[n \in EnvNames |->
         CASE n = "RATE_LIMIT_REQUESTS_PER_MINUTE" -> m
           [] n = "RATE_LIMIT_REQUESTS_PER_HOUR" -> h
           [] OTHER -> Unset] :
       m \in {Str(<<"1">>), Str(<<"2">>)}, h \in {Unset, Str(<<"1">>)}}

HandlerInstants == {0, 1, minute}

InitHandler ==
    /\ env \in HandlerEnvs
    /\ limiter = "chat"
    /\ given = ChatLimiterArg(env)
    /\ config = RateLimiterNew(given)
    /\ requests = <<>>
    /\ now = 0
    /\ calls = <<>>
    /\ IdleHandlers

\* lines 16-17: the client key is read and checkLimit runs to its return
\* (it has no await of its own); the handler then waits on the promise
HandlerCheck(p, h) ==
    /\ pc[p] = "idle"
    /\ LET clientIp == clientIpOf(h)
           r == checkLimit(requests, config, clientIp, now)
       IN  /\ requests' = r.requests
           /\ calls' = Append(calls, CallRecord(p, clientIp, now, r))
           /\ isAllowed' = [isAllowed EXCEPT ![p] = r.ok]
    /\ pc' = [pc EXCEPT ![p] = "awaitCheckLimit"]
    /\ UNCHANGED <<env, limiter, given, config, now, status, fetches>>

HandlerDecide_ignoring(p) ==
    /\ pc[p] = "awaitCheckLimit"
    /\ pc' = [pc EXCEPT ![p] = "awaitJson"]
    /\ UNCHANGED <<env, limiter, given, config, requests, now, calls, isAllowed, status, fetches>>

\* lines 19-28: the 429 response, or on to await req.json()
HandlerDecide(p) ==
    /\ pc[p] = "awaitCheckLimit"
    /\ IF ~isAllowed[p]
       THEN /\ status' = [status EXCEPT ![p] = 429]
            /\ pc' = [pc EXCEPT ![p] = "done"]
       ELSE /\ pc' = [pc EXCEPT ![p] = "awaitJson"]
            /\ UNCHANGED status
    /\ UNCHANGED <<env, limiter, given, config, requests, now, calls, isAllowed, fetches>>

catchError_rollback(p) ==
    /\ status' = [status EXCEPT ![p] = 500]
    /\ pc' = [pc EXCEPT ![p] = "done"]
    /\ LET c == calls[CHOOSE k \in DOMAIN calls : calls[k].proc = p].client
           ts == getTimestamps(requests, c)
       IN  requests' = IF ts = <<>> THEN requests
                       ELSE setTimestamps(requests, c, SubSeq(ts, 1, Len(ts) - 1))

\* lines 78-95: the caught error becomes a response with status
\* error.status || 500; the limiter is not touched
catchError(p) ==
    /\ status' = [status EXCEPT ![p] = 500]
    /\ pc' = [pc EXCEPT ![p] = "done"]
    /\ UNCHANGED requests

\* lines 28-57: the body parses and fetch is called, or req.json() rejects
\* or messages is missing: lines 78-95
HandlerBody(p, body) ==
    /\ pc[p] = "awaitJson"
    /\ IF body = "ok"
       THEN /\ fetches' = [fetches EXCEPT ![p] = @ + 1]
            /\ pc' = [pc EXCEPT ![p] = "awaitFetch"]
            /\ UNCHANGED <<status, requests>>
       ELSE /\ catchError(p)
            /\ UNCHANGED fetches
    /\ UNCHANGED <<env, limiter, given, config, now, calls, isAllowed>>

\* lines 47-77: fetch resolves ok (the stream is passed on), resolves not ok
\* (the error body is awaited), or rejects
HandlerUpstream(p, answer) ==
    /\ pc[p] = "awaitFetch"
    /\ CASE answer = "ok" ->
              /\ status' = [status EXCEPT ![p] = 200]
              /\ pc' = [pc EXCEPT ![p] = "done"]
              /\ UNCHANGED requests
         [] answer = "notOk" ->
              /\ pc' = [pc EXCEPT ![p] = "awaitErrorBody"]
              /\ UNCHANGED <<status, requests>>
         [] OTHER -> catchError(p)
    /\ UNCHANGED <<env, limiter, given, config, now, calls, isAllowed, fetches>>

\* lines 61-68: response.json() settles either way, the Error is thrown
HandlerErrorBody(p) ==
    /\ pc[p] = "awaitErrorBody"
    /\ catchError(p)
    /\ UNCHANGED <<env, limiter, given, config, now, calls, isAllowed, fetches>>

TickHandler ==
    /\ \E t \in HandlerInstants : t > now /\ now' = t
    /\ UNCHANGED <<env, limiter, given, config, requests, calls, pc, isAllowed, status, fetches>>

NextHandler ==
    \/ \E p \in Procs, h \in Headers : HandlerCheck(p, h)
    \/ \E p \in Procs : HandlerDecide(p)
    \/ \E p \in Procs, body \in {"ok", "badJson", "noMessages"} : HandlerBody(p, body)
    \/ \E p \in Procs, answer \in {"ok", "notOk", "networkError"} : HandlerUpstream(p, answer)
    \/ \E p \in Procs : HandlerErrorBody(p)
    \/ TickHandler

SpecHandler == InitHandler /\ [][NextHandler]_vars

(***************************************************************************)
(* Reading the record of calls.                                            *)
(***************************************************************************)
\* the caps are the positive integers m, h, d
CapsAre(m, h, d) == config = Partial(Num(m), Num(h), Num(d))

PositiveCaps ==
    /\ config.requestsPerMinute.t = "num" /\ config.requestsPerMinute.v > 0
    /\ config.requestsPerHour.t = "num" /\ config.requestsPerHour.v > 0
    /\ config.requestsPerDay.t = "num" /\ config.requestsPerDay.v > 0

\* the calls before call k that were admitted for client c
AdmittedBefore(k, c) == {j \in 1..(k - 1) : calls[j].client = c /\ calls[j].ok}

\* those of them less than w milliseconds before call k
AdmittedWithin(k, c, w) == {j \in AdmittedBefore(k, c) : calls[k].at - calls[j].at < w}

\* how many stored timestamps of client c lie in the window of w ms ending now
StoredWithin(c, w) ==
    Cardinality({i \in DOMAIN requests[c] :
                    requests[c][i] <= now /\ now - requests[c][i] < w})

\* the record of calls without call k
Without(k) == SubSeq(calls, 1, k - 1) \o SubSeq(calls, k + 1, Len(calls))

\* the calls of a record made again, in order, on a fresh limiter
RECURSIVE Replay(_, _, _)
Replay(log, reqs, oks) ==
    IF log = <<>> THEN [requests |-> reqs, oks |-> oks]
    ELSE LET r == checkLimit(reqs, config, Head(log).client, Head(log).at)
         IN  Replay(Tail(log), r.requests, Append(oks, r.ok))

OksOf(log) == [i \in 1..Len(log) |-> log[i].ok]

\* the step is a checkLimit call
IsCall == Len(calls') = Len(calls) + 1
LastCall == calls[Len(calls)]

(***************************************************************************)
(* C1. Once requestsPerMinute calls for a client have been admitted within *)
(* one 60 000 ms span, the next call for that client inside the span       *)
(* returns false; with caps {2, 10, 10} three back-to-back calls for A     *)
(* return true, true, false.                                               *)
(***************************************************************************)
BackToBackA ==
    /\ Len(calls) >= 3
    /\ \A k \in 1..3 : calls[k].client = "A" /\ calls[k].at - calls[1].at < 1000

C1_MinuteCapRejects ==
    /\ \A k \in DOMAIN calls :
          (PositiveCaps /\
           Cardinality(AdmittedWithin(k, calls[k].client, minute))
              >= config.requestsPerMinute.v)
          => ~calls[k].ok
    /\ (CapsAre(2, 10, 10) /\ BackToBackA)
          => <<calls[1].ok, calls[2].ok, calls[3].ok>> = <<TRUE, TRUE, FALSE>>

C1_Witness ==
    /\ CapsAre(2, 10, 10) /\ BackToBackA
    /\ Cardinality(AdmittedWithin(3, "A", minute)) = 2
    /\ ~calls[3].ok

(***************************************************************************)
(* C2. A call that returns false leaves the whole request map unchanged,   *)
(* and every other call decides as if the rejected call had not been made. *)
(***************************************************************************)
RejectedCallForgotten ==
    \A k \in DOMAIN calls :
        ~calls[k].ok =>
            LET rp == Replay(Without(k), <<>>, <<>>)
            IN  rp.requests = requests /\ rp.oks = OksOf(Without(k))

C2_RejectChangesNothing ==
    /\ [](RejectedCallForgotten)
    /\ [][(IsCall /\ ~calls'[Len(calls')].ok) => requests' = requests]_vars

C2_Witness ==
    /\ Len(calls) >= 3
    /\ ~calls[2].ok
    /\ calls[3].ok /\ calls[3].client = calls[2].client
    /\ requests # <<>>

(***************************************************************************)
(* C4. A call for one client never changes the stored sequence of another, *)
(* each decision follows from the caller's own admitted history, and a     *)
(* client without history is admitted while another is at its minute cap.  *)
(***************************************************************************)
OwnHistoryDecides ==
    \A k \in DOMAIN calls :
        LET c == calls[k].client
        IN  calls[k].ok <=>
               /\ ~GreaterOrEqual(Cardinality(AdmittedWithin(k, c, minute)),
                                  config.requestsPerMinute)
               /\ ~GreaterOrEqual(Cardinality(AdmittedWithin(k, c, hour)),
                                  config.requestsPerHour)
               /\ ~GreaterOrEqual(Cardinality(AdmittedWithin(k, c, day)),
                                  config.requestsPerDay)

FreshClientAdmitted ==
    \A k \in DOMAIN calls :
        (PositiveCaps /\ \A j \in 1..(k - 1) : calls[j].client # calls[k].client)
            => calls[k].ok

OthersUntouched ==
    IsCall =>
        \A b \in (DOMAIN requests \cup DOMAIN requests') \ {calls'[Len(calls')].client} :
            /\ b \in DOMAIN requests /\ b \in DOMAIN requests'
            /\ requests'[b] = requests[b]

C4_ClientIsolation ==
    /\ [](OwnHistoryDecides /\ FreshClientAdmitted)
    /\ [][OthersUntouched]_vars

C4_Witness ==
    /\ Len(calls) >= 3
    /\ calls[1].client = "A" /\ calls[1].ok
    /\ calls[2].client = "A" /\ ~calls[2].ok /\ calls[2].window = "minute"
    /\ calls[3].client = "B" /\ calls[3].ok /\ calls[3].at = calls[2].at
    /\ requests["A"] = <<calls[1].at>>

(***************************************************************************)
(* C5. When every earlier admitted request of the client is at least       *)
(* 24 h + 1 ms older than the call, the call counts zero in all three      *)
(* windows, is admitted, and leaves exactly <<now>> stored for the client. *)
(***************************************************************************)
AllOlderThanADay(k) ==
    \A j \in AdmittedBefore(k, calls[k].client) : calls[k].at - calls[j].at >= day + 1

C5_PrunedHistoryCountsZero ==
    (calls # <<>> /\ PositiveCaps /\ AllOlderThanADay(Len(calls))) =>
        /\ LastCall.lastMinute = 0 /\ LastCall.lastHour = 0 /\ LastCall.lastDay = 0
        /\ LastCall.ok
        /\ requests[LastCall.client] = <<LastCall.at>>

C5_Witness ==
    /\ calls # <<>> /\ AllOlderThanADay(Len(calls))
    /\ AdmittedBefore(Len(calls), LastCall.client) # {}
    /\ LastCall.ok
    /\ requests[LastCall.client] = <<LastCall.at>>

(***************************************************************************)
(* C10. Under a clock that does not go back, every client's stored         *)
(* timestamps number at most requestsPerMinute in the trailing minute, at  *)
(* most requestsPerHour in the trailing hour and at most requestsPerDay in *)
(* the trailing 24 hours, whatever the relative sizes of the caps.         *)
(***************************************************************************)
C10_QuotaInvariant ==
    PositiveCaps =>
        \A c \in DOMAIN requests :
            /\ StoredWithin(c, minute) <= config.requestsPerMinute.v
            /\ StoredWithin(c, hour) <= config.requestsPerHour.v
            /\ StoredWithin(c, day) <= config.requestsPerDay.v

C10_Witness ==
    /\ CapsAre(2, 2, 1)
    /\ calls # <<>> /\ ~LastCall.ok /\ LastCall.window = "day"
    /\ LastCall.at = now
    /\ StoredWithin(LastCall.client, day) = 1
    /\ StoredWithin(LastCall.client, minute) = 0

(***************************************************************************)
(* C7. An invalid configuration is rejected at construction: no limiter    *)
(* with a requestsPerMinute, requestsPerHour or requestsPerDay that is     *)
(* zero or negative ever serves a checkLimit call.                         *)
(***************************************************************************)
NonPositive(cap) == cap.t = "num" /\ cap.v <= 0

C7_NoNonPositiveCapInUse ==
    calls # <<>> =>
        /\ ~NonPositive(config.requestsPerMinute)
        /\ ~NonPositive(config.requestsPerHour)
        /\ ~NonPositive(config.requestsPerDay)

(***************************************************************************)
(* C8. In the limiter of chat.ts, a cap whose environment variable is      *)
(* unset or not numeric is the documented default 15 / 250 / 500.          *)
(***************************************************************************)
\* the text of a number: blanks around an optionally signed run of decimal
\* digits, or Infinity
NumericText(e) ==
    /\ e.set
    /\ LET trimmed == TrimRight(TrimLeft(e.s))
           body == IF trimmed # <<>> /\ Head(trimmed) \in {"-", "+"}
                   THEN Tail(trimmed) ELSE trimmed
       IN  /\ body # <<>>
           /\ \/ body = InfinityChars
              \/ \A i \in 1..Len(body) : body[i] \in Digits

C8_EnvFallback ==
    limiter = "chat" =>
        /\ ~NumericText(env["RATE_LIMIT_REQUESTS_PER_MINUTE"])
              => config.requestsPerMinute = Num(15)
        /\ ~NumericText(env["RATE_LIMIT_REQUESTS_PER_HOUR"])
              => config.requestsPerHour = Num(250)
        /\ ~NumericText(env["RATE_LIMIT_REQUESTS_PER_DAY"])
              => config.requestsPerDay = Num(500)

C8_Witness ==
    /\ limiter = "chat"
    /\ env["RATE_LIMIT_REQUESTS_PER_MINUTE"] = Str(<<"a", "b", "c">>)
    /\ env["RATE_LIMIT_REQUESTS_PER_HOUR"] = Unset
    /\ env["RATE_LIMIT_REQUESTS_PER_DAY"] = Str(<<"2">>)
    /\ config = Partial(Num(15), Num(250), Num(2))
    /\ calls # <<>>

(***************************************************************************)
(* C9. The constructor fills each omitted cap with 60 / 1000 / 5000,       *)
(* independently of the other two, and keeps every supplied cap as given.  *)
(***************************************************************************)
C9_ConstructorDefaults ==
    limiter # "none" =>
        /\ config.requestsPerMinute =
              IF given.requestsPerMinute = Undefined THEN Num(60)
              ELSE given.requestsPerMinute
        /\ config.requestsPerHour =
              IF given.requestsPerHour = Undefined THEN Num(1000)
              ELSE given.requestsPerHour
        /\ config.requestsPerDay =
              IF given.requestsPerDay = Undefined THEN Num(5000)
              ELSE given.requestsPerDay

C9_Witness ==
    /\ limiter = "direct"
    /\ given = Partial(Undefined, Num(0), Num(2))
    /\ config = Partial(Num(60), Num(0), Num(2))

(***************************************************************************)
(* C3. Handler invocations for one client that interleave at their awaits  *)
(* within one minute, from an empty history, more of them than             *)
(* requestsPerMinute and the hour and day caps no smaller: exactly         *)
(* requestsPerMinute are admitted and the others rejected; never more      *)
(* than the cap.                                                           *)
(***************************************************************************)
CallsFor(c) == {k \in DOMAIN calls : calls[k].client = c}
AdmittedFor(c) == {k \in CallsFor(c) : calls[k].ok}
WithinOneMinute(K) == \A j, k \in K : calls[k].at - calls[j].at < minute

C3_ConcurrentExactlyCap ==
    \A c \in {calls[k].client : k \in DOMAIN calls} :
        (PositiveCaps /\ WithinOneMinute(CallsFor(c))) =>
            /\ Cardinality(AdmittedFor(c)) <= config.requestsPerMinute.v
            /\ (/\ Cardinality(CallsFor(c)) > config.requestsPerMinute.v
                /\ config.requestsPerHour.v >= config.requestsPerMinute.v
                /\ config.requestsPerDay.v >= config.requestsPerMinute.v)
               => /\ Cardinality(AdmittedFor(c)) = config.requestsPerMinute.v
                  /\ Cardinality(CallsFor(c) \ AdmittedFor(c))
                        = Cardinality(CallsFor(c)) - config.requestsPerMinute.v

\* both invocations are suspended on their checkLimit promise at once
C3_Witness ==
    /\ \A p \in Procs : pc[p] = "awaitCheckLimit"
    /\ Cardinality(CallsFor("A")) = NumProcs
    /\ NumProcs > config.requestsPerMinute.v
    /\ WithinOneMinute(CallsFor("A"))
    /\ Cardinality(AdmittedFor("A")) = config.requestsPerMinute.v

(***************************************************************************)
(* C6. Each handled request calls checkLimit exactly once, before any      *)
(* upstream fetch; the upstream is fetched only after a true, and after a  *)
(* false the request ends with status 429 and no fetch.                    *)
(***************************************************************************)
ChecksBy(p) == {k \in DOMAIN calls : calls[k].proc = p}

C6_CheckOnceThenFetch ==
    \A p \in Procs :
        /\ Cardinality(ChecksBy(p)) = IF pc[p] = "idle" THEN 0 ELSE 1
        /\ fetches[p] > 0 => \E k \in ChecksBy(p) : calls[k].ok
        /\ \A k \in ChecksBy(p) :
              ~calls[k].ok =>
                  /\ fetches[p] = 0
                  /\ status[p] \in {0, 429}
                  /\ pc[p] \in {"awaitCheckLimit", "done"}
                  /\ pc[p] = "done" => status[p] = 429

C6_Witness ==
    \E p, q \in Procs :
        /\ pc[p] = "done" /\ status[p] = 429 /\ fetches[p] = 0
        /\ \E k \in ChecksBy(p) : ~calls[k].ok
        /\ pc[q] = "done" /\ status[q] = 200 /\ fetches[q] = 1
        /\ \E k \in ChecksBy(q) : calls[k].ok

(***************************************************************************)
(* C11. checkLimit returns true exactly when, on the day-pruned sequence,  *)
(* the minute, hour and day counts are each below their cap; a rejection   *)
(* reports the first window, in the order minute, hour, day, whose count   *)
(* has reached its cap.                                                    *)
(***************************************************************************)
\* the counts of call k, taken from the client's admitted calls on record
MinuteCount(k) == Cardinality(AdmittedWithin(k, calls[k].client, minute))
HourCount(k) == Cardinality(AdmittedWithin(k, calls[k].client, hour))
DayCount(k) == Cardinality(AdmittedWithin(k, calls[k].client, day))

C11_DecisionAndWindow ==
    PositiveCaps =>
        \A k \in DOMAIN calls :
            /\ calls[k].lastMinute = MinuteCount(k)
            /\ calls[k].lastHour = HourCount(k)
            /\ calls[k].lastDay = DayCount(k)
            /\ calls[k].ok <=>
                  /\ MinuteCount(k) < config.requestsPerMinute.v
                  /\ HourCount(k) < config.requestsPerHour.v
                  /\ DayCount(k) < config.requestsPerDay.v
            /\ calls[k].window =
                  CASE MinuteCount(k) >= config.requestsPerMinute.v -> "minute"
                    [] HourCount(k) >= config.requestsPerHour.v -> "hour"
                    [] DayCount(k) >= config.requestsPerDay.v -> "day"
                    [] OTHER -> "none"

C11_Witness ==
    /\ PositiveCaps /\ calls # <<>>
    /\ ~LastCall.ok /\ LastCall.window = "day"
    /\ MinuteCount(Len(calls)) < config.requestsPerMinute.v
    /\ HourCount(Len(calls)) < config.requestsPerHour.v
    /\ \E k \in DOMAIN calls : calls[k].window = "minute"

(***************************************************************************)
(* C12. A call that returns true replaces the client's stored sequence by  *)
(* the previous one without the timestamps outside the 24-hour window,     *)
(* followed by the one new element now; it changes nothing else.           *)
(***************************************************************************)
\* the stored sequence of c, empty when c has no entry
StoredOf(reqs, c) == IF c \in DOMAIN reqs THEN reqs[c] ELSE <<>>

\* the elements of seq that keep(_) holds of, in order
Kept(seq, keep(_)) == SelectSeq(seq, keep)

AdmitStoresPrunedPlusNow ==
    (IsCall /\ calls'[Len(calls')].ok) =>
        LET c == calls'[Len(calls')].client
            old == StoredOf(requests, c)
            new == StoredOf(requests', c)
        IN  /\ c \in DOMAIN requests'
            /\ Len(new) >= 1
            /\ new[Len(new)] = now
            \* what is kept: everything younger than 24 h, nothing older
            /\ \/ SubSeq(new, 1, Len(new) - 1) = Kept(old, LAMBDA ts : now - ts < day)
               \/ SubSeq(new, 1, Len(new) - 1) = Kept(old, LAMBDA ts : now - ts <= day)
            /\ DOMAIN requests' = DOMAIN requests \cup {c}
            /\ \A b \in DOMAIN requests \ {c} : requests'[b] = requests[b]
            /\ UNCHANGED <<config, now>>

C12_AdmitStoresPrunedPlusNow == [][AdmitStoresPrunedPlusNow]_vars

\* an admitted call has just dropped an old timestamp and kept a younger one
C12_Witness ==
    /\ Len(calls) >= 3
    /\ LastCall.ok /\ LastCall.at = now
    /\ Cardinality(AdmittedBefore(Len(calls), LastCall.client)) >= 2
    /\ LastCall.client \in DOMAIN requests
    /\ Len(requests[LastCall.client]) = 2
    /\ requests[LastCall.client][2] = now

(***************************************************************************)
(* C13. As claimed: a timestamp exactly 24 hours old is kept and counts    *)
(* toward the day window, so with requestsPerDay = 1 a request made        *)
(* exactly 24 hours after an admitted one is rejected.                     *)
(***************************************************************************)
ExactlyADayOld(k) ==
    {j \in AdmittedBefore(k, calls[k].client) : calls[k].at - calls[j].at = day}

C13_ExactlyADayOldIsKept ==
    \A k \in DOMAIN calls :
        (PositiveCaps /\ config.requestsPerDay.v = 1 /\ ExactlyADayOld(k) # {})
            => ~calls[k].ok

(***************************************************************************)
(* C13, amended. Pruning drops the timestamps 24 hours old or older: one   *)
(* exactly 24 hours old is dropped and does not count toward the day       *)
(* window, so with requestsPerDay = 1 a request made exactly 24 hours      *)
(* after the last admitted one is admitted, and one made 1 ms earlier is   *)
(* rejected.                                                               *)
(***************************************************************************)
C13_ExactlyADayOldIsDropped ==
    \A k \in DOMAIN calls :
        LET c == calls[k].client
            earlier == AdmittedBefore(k, c)
        IN  /\ calls[k].lastDay =
                  Cardinality({j \in earlier : calls[k].at - calls[j].at < day})
            /\ (PositiveCaps /\ config.requestsPerDay.v = 1) =>
                  /\ (\A j \in earlier : calls[k].at - calls[j].at >= day)
                        => calls[k].ok
                  /\ (\E j \in earlier : calls[k].at - calls[j].at = day - 1)
                        => ~calls[k].ok
            /\ (k = Len(calls) /\ calls[k].ok) =>
                  \A i \in DOMAIN requests[c] : calls[k].at - requests[c][i] < day

C13_Witness ==
    /\ Len(calls) >= 3
    /\ config.requestsPerDay.v = 1
    /\ \A k \in 1..3 : calls[k].client = "A"
    /\ calls[1].at = 1 /\ calls[1].ok
    /\ calls[2].at = day /\ ~calls[2].ok /\ calls[2].window = "day"
    /\ calls[3].at = day + 1 /\ calls[3].ok /\ calls[3].lastDay = 0
    /\ ExactlyADayOld(3) = {1}

(***************************************************************************)
(* C14. As claimed: after every checkLimit call for a client, admitted or  *)
(* rejected, the client's stored sequence holds no timestamp older than    *)
(* 24 hours before the call's instant.                                     *)
(***************************************************************************)
\* the stored timestamps of c more than 24 hours older than instant t
StaleAt(c, t) == {i \in DOMAIN StoredOf(requests, c) : t - requests[c][i] > day}

C14_NoStaleAfterAnyCall ==
    calls # <<>> => StaleAt(LastCall.client, LastCall.at) = {}

(***************************************************************************)
(* C14, amended. After every checkLimit call that admits, the client's     *)
(* stored sequence holds no timestamp older than 24 hours before the       *)
(* call's instant; a call that rejects stores nothing, so the stored       *)
(* sequence is the one it found, timestamps older than 24 hours included.  *)
(***************************************************************************)
C14_NoStaleAfterAdmission ==
    /\ [](calls # <<>> /\ LastCall.ok => StaleAt(LastCall.client, LastCall.at) = {})
    /\ [][(IsCall /\ ~calls'[Len(calls')].ok) =>
             StoredOf(requests', calls'[Len(calls')].client)
                = StoredOf(requests, calls'[Len(calls')].client)]_vars

C14_Witness ==
    /\ Len(calls) >= 3
    /\ LastCall.ok /\ LastCall.at = now
    /\ \E j \in AdmittedBefore(Len(calls), LastCall.client) : now - calls[j].at > day
    /\ StaleAt(LastCall.client, now) = {}
    /\ Len(StoredOf(requests, LastCall.client)) = 2

(***************************************************************************)
(* C15. A client's record is created on its first request: with positive   *)
(* caps the first call for a client without entry returns true and leaves  *)
(* an entry holding exactly <<now>>, and a client for which checkLimit was *)
(* never called has no entry.                                              *)
(***************************************************************************)
FirstCallOf(k) == \A j \in 1..(k - 1) : calls[j].client # calls[k].client

C15_RecordCreatedOnFirstCall ==
    /\ \A c \in DOMAIN requests : CallsFor(c) # {}
    /\ PositiveCaps =>
          /\ \A k \in DOMAIN calls : FirstCallOf(k) => calls[k].ok
          /\ \A c \in {calls[k].client : k \in DOMAIN calls} : c \in DOMAIN requests
          /\ (calls # <<>> /\ FirstCallOf(Len(calls))) =>
                StoredOf(requests, LastCall.client) = <<LastCall.at>>

C15_Witness ==
    /\ Len(calls) >= 2
    /\ calls[1].client = "A"
    /\ LastCall.client = "B" /\ FirstCallOf(Len(calls)) /\ LastCall.at > 0
    /\ DOMAIN requests = {"A", "B"}
    /\ requests["B"] = <<now>>

(***************************************************************************)
(* C16. Under a clock that never moves backwards, each client's stored     *)
(* timestamp sequence is non-decreasing in insertion order.                *)
(***************************************************************************)
C16_StoredNonDecreasing ==
    \A c \in DOMAIN requests :
        \A i, j \in DOMAIN requests[c] : i < j => requests[c][i] <= requests[c][j]

C16_Witness ==
    \E c \in DOMAIN requests :
        /\ Len(requests[c]) >= 3
        /\ requests[c][1] < requests[c][2]
        /\ requests[c][2] = requests[c][3]

(***************************************************************************)
(* C17. The hour cap rejects on its own: a call whose minute count is      *)
(* below requestsPerMinute and whose hour count has reached                *)
(* requestsPerHour returns false by the hour window, and there is such a   *)
(* call whose day count is still below requestsPerDay.                     *)
(***************************************************************************)
HourAlone(k) ==
    /\ MinuteCount(k) < config.requestsPerMinute.v
    /\ HourCount(k) >= config.requestsPerHour.v

C17_HourCapRejectsAlone ==
    PositiveCaps =>
        \A k \in DOMAIN calls : HourAlone(k) => ~calls[k].ok /\ calls[k].window = "hour"

C17_Witness ==
    /\ PositiveCaps /\ calls # <<>>
    /\ HourAlone(Len(calls))
    /\ DayCount(Len(calls)) < config.requestsPerDay.v
    /\ ~LastCall.ok /\ LastCall.window = "hour"

(***************************************************************************)
(* C18. With positive caps the stored timestamp sequence of every client   *)
(* has length at most requestsPerDay, timestamps that have aged out of the *)
(* 24-hour window but are not pruned yet included.                         *)
(***************************************************************************)
C18_StoredLengthBounded ==
    PositiveCaps =>
        \A c \in DOMAIN requests : Len(requests[c]) <= config.requestsPerDay.v

\* a full sequence, one of its timestamps already out of the window
C18_Witness ==
    \E c \in DOMAIN requests :
        /\ Len(requests[c]) = config.requestsPerDay.v
        /\ \E i \in DOMAIN requests[c] : now - requests[c][i] > day

(***************************************************************************)
(* C19. Once checkLimit has admitted a request its timestamp stays         *)
(* recorded whatever the handler does afterwards: a body that does not     *)
(* parse or an upstream error (the 500 path) does not remove it, so the    *)
(* unanswered request still counts against the client's quota.             *)
(***************************************************************************)
\* how often instant t is stored for client c
TimesStored(c, t) ==
    Cardinality({i \in DOMAIN StoredOf(requests, c) : requests[c][i] = t})

\* how many calls for client c were admitted at instant t
TimesAdmitted(c, t) == Cardinality({k \in AdmittedFor(c) : calls[k].at = t})

AdmittedStaysRecorded ==
    \A k \in DOMAIN calls :
        (calls[k].ok /\ now - calls[k].at < day) =>
            TimesStored(calls[k].client, calls[k].at)
               = TimesAdmitted(calls[k].client, calls[k].at)

C19_NoRollbackOnFailure ==
    /\ [](AdmittedStaysRecorded)
    /\ [][~IsCall => requests' = requests]_vars

\* p was admitted and failed with 500; q, later and for the same client,
\* is turned away with only p's timestamp in the way
C19_Witness ==
    \E p, q \in Procs, kp, kq \in DOMAIN calls :
        /\ calls[kp].proc = p /\ calls[kq].proc = q /\ kp < kq
        /\ calls[kp].client = calls[kq].client
        /\ calls[kp].ok /\ pc[p] = "done" /\ status[p] = 500 /\ fetches[p] = 1
        /\ ~calls[kq].ok /\ calls[kq].lastMinute = 1
        /\ pc[q] = "done" /\ status[q] = 429
        /\ requests[calls[kp].client] = <<calls[kp].at>>

====
